---- MODULE Spec2Model ----
(***************************************************************************)
(* The Chat component of src/src/components/Chat.jsx as a state machine.   *)
(*                                                                         *)
(* The component is single threaded and event driven: every handler runs   *)
(* to its first await atomically, and every continuation after an await    *)
(* runs atomically when the awaited request settles.  A request therefore  *)
(* has three moments, each an action of its own: it is issued by a         *)
(* handler, the backend serves it (reads or changes the backend's state),  *)
(* and its outcome is delivered to the continuation.  Requests are served  *)
(* and delivered in any order, and each may fail instead.  React renders   *)
(* between two events, so a handler reads the current state when it        *)
(* starts; what it read then is what its continuations still hold (the     *)
(* fields of an exchange).  A failure is a rejected fetch or a body that   *)
(* does not parse (for the ask, also a status that is not OK); the list    *)
(* refresh may also be answered not OK with a JSON object.                 *)
(*                                                                         *)
(* The voice input (speech recognition and the microphone permission) is   *)
(* the second half of the module.  It shares only the textarea's text      *)
(* with the conversations, so each half has a specification of its own:    *)
(* Spec runs the conversation actions in one browser, VoiceSpec runs the   *)
(* voice actions in every kind of browser.  SendSpec runs the sending, by  *)
(* button or by key, together with the speech output and its Voice        *)
(* toggle; a send by key changes the state as a send by button does.       *)
(***************************************************************************)
EXTENDS Integers, Sequences, FiniteSets, TLC

\* ------------------------------------------------------------- bounds
MaxConvs == 2    \* conversations the backend ever holds
MaxOps   == 2    \* user actions that issue a request: sends, switches, New,
                 \* microphone prompts

\* ---------------------------------------------------------- constants
GREETING == <<"Hi! I'm your AI assistant. How can I help today?">>
NEW_CHAT == <<"New chat started. What would you like to discuss?">>
APOLOGY  == <<"Sorry, I ran into an issue reaching the brain. Try again.">>

\* Text is a sequence of characters; the canned texts are one token each.
Inputs  == {<<>>, <<" ">>, <<" ", "a", " ">>}
Replies == {<<"r">>}

Msg(role, content) == [role |-> role, content |-> content]

\* Bodies GET /api/conversations/{id}/messages may answer with: an array of
\* messages (empty or not), or JSON that is no array (an error object).
NotArray  == [isArray |-> FALSE, items |-> <<>>]
ArrayOf(items) == [isArray |-> TRUE, items |-> items]
Histories == {<<>>, <<Msg("user", <<"h">>), Msg("assistant", <<"k">>)>>}
LoadBodies == {NotArray} \cup {ArrayOf(h) : h \in Histories}

\* The texts voiceStatus takes (63, 226, 235, 257, 274, 278).
NO_STATUS       == ""
BLOCKED         == "Microphone permission blocked. Please allow access in your browser settings."
UNSUPPORTED     == "Speech recognition is not supported in this browser."
MIC_DENIED      == "Microphone permission denied."
REC_ERROR       == "Speech recognition error. Try again."
LISTENING       == "Listening..."
COULD_NOT_START == "Could not start speech recognition. Make sure only one tab is listening."

\* PermissionStatus.state, as navigator.permissions.query reports it.
PermissionStates == {"granted", "denied", "prompt"}

\* SpeechRecognitionErrorEvent.error, two of its codes.
ErrorCodes == {"not-allowed", "no-speech"}

NoRec == 0       \* recognitionRef.current = null

\* SpeechSynthesisVoice, its lang and name as sequences of characters.
Voice(lang, name) == [lang |-> lang, name |-> name]
NoVoice    == Voice(<<>>, <<>>)     \* utter.voice left unset
ALEX       == Voice(<<"e","n","-","U","S">>, <<"A","l","e","x">>)
US_NATURAL == Voice(<<"e","n","-","U","S">>,
                    <<"A","v","a"," ","n","a","t","u","r","a","l">>)
UK_GOOGLE  == Voice(<<"e","n","-","G","B">>, <<"G","o","o","g","l","e">>)
FR_GOOGLE  == Voice(<<"f","r","-","F","R">>, <<"G","o","o","g","l","e">>)

\* What speechSynthesis.getVoices() may return.
VoiceLists == {<<>>, <<ALEX>>, <<ALEX, US_NATURAL>>, <<FR_GOOGLE, UK_GOOGLE>>}

ConvIds == 1..MaxConvs
NoId    == 0     \* activeId = null

VARIABLES
  conversations,  \* useState([])    : the local conversation list
  activeId,       \* useState(null)  : NoId or a conversation id
  messages,       \* useState([])    : the messages in view
  input,          \* useState('')    : the textarea's text
  loading,        \* useState(false)
  initPc,         \* where init() is: "list", "create", "load", "done"
  initResp,       \* the served body of init's GET /api/conversations
  creates,        \* createConversation calls awaiting their POST
  loads,          \* loadMessages calls awaiting their GET: id -> how many
  exchanges,      \* sendMessage calls past the guard, awaiting ask or refresh
  srvConvs,       \* the backend's conversation list
  ops,            \* user actions that issued a request so far
  recSupported,   \* useMemo of 68: the browser has a SpeechRecognition
  getUserMedia,   \* navigator.mediaDevices.getUserMedia exists
  permQuery,      \* checkPermission: "none" (no permissions.query),
                  \* "pending", "watching" (onchange set), "failed"
  micPermission,  \* useState('unknown')
  listening,      \* useState(false)
  voiceStatus,    \* useState('')
  recognitionRef, \* useRef(null): NoRec, or the n-th instance created
  engine,         \* the instance's engine: "idle", "running", or
                  \* "stopping" (its end event is still to come)
  prompts,        \* toggleListening calls awaiting getUserMedia
  voiceEnabled,   \* useState(true)
  synthSupported, \* useMemo of 69: the window has a speechSynthesis
  voices,         \* voicesRef.current: the cached voices
  synth,          \* speechSynthesis' queue of utterances, the head speaking
  ev              \* the step that ran last, and the id it was about;
                  \* "unhandledrejection" is the window's event of that name

vars == <<conversations, activeId, messages, input, loading, initPc, initResp,
          creates, loads, exchanges, srvConvs, ops, recSupported,
          getUserMedia, permQuery, micPermission, listening, voiceStatus,
          recognitionRef, engine, prompts, voiceEnabled, synthSupported,
          voices, synth, ev>>

voice == <<recSupported, getUserMedia, permQuery, micPermission, listening,
           voiceStatus, recognitionRef, engine, prompts>>
chat  == <<conversations, activeId, messages, loading, initPc, initResp,
           creates, loads, exchanges, srvConvs>>
caps  == <<recSupported, getUserMedia>>
speech == <<voiceEnabled, synthSupported, voices, synth>>

view   == <<conversations, activeId, messages, input, loading>>
netw   == <<initPc, initResp, creates, loads, exchanges>>

\* ev: the step, the conversation id or recognition instance it was about
\* (or NoId), and what it was handed: the body a message load was answered
\* with, the code of a recognition error (Detail), or NotArray for none.
\* key and shiftKey are those of the key-down that made the step ("none"
\* when the step is no key-down).
EvOf(op, id, data) ==
  [op |-> op, id |-> id, data |-> data, key |-> "none", shiftKey |-> FALSE]
Ev(op, id) == EvOf(op, id, NotArray)
KeyEv(op, key, shiftKey) ==
  [op |-> op, id |-> NoId, data |-> NotArray, key |-> key,
   shiftKey |-> shiftKey]

\* KeyboardEvent.key: Enter and one other key.
Keys == {"Enter", "a"}
Detail(code) == [isArray |-> FALSE, items |-> <<code>>]

\* --------------------------------------------------------- pure parts
IsSpace(c) == c \in {" ", "\t", "\n"}

RECURSIVE TrimStart(_)
TrimStart(s) == IF s # <<>> /\ IsSpace(Head(s)) THEN TrimStart(Tail(s)) ELSE s

RECURSIVE TrimEnd(_)
TrimEnd(s) ==
  IF s # <<>> /\ IsSpace(s[Len(s)]) THEN TrimEnd(SubSeq(s, 1, Len(s) - 1)) ELSE s

TrimStartOnly(s) == TrimStart(s)

\* String.prototype.trim
Trim(s) == TrimEnd(TrimStart(s))

RemoveAt(s, i) == SubSeq(s, 1, i - 1) \o SubSeq(s, i + 1, Len(s))

Ids(list) == {list[i].id : i \in 1..Len(list)}

Conv(id, at) == [id |-> id, title |-> "none", last_message_at |-> at]

LoadedNoFallback(data) == data.items

\* What loadMessages puts in view for a parsed body.
Loaded(data) ==
  IF data.isArray /\ Len(data.items) > 0 THEN data.items
  ELSE <<Msg("assistant", GREETING)>>

\* The conversations state after setConversations was handed a JSON object
\* that is no array (the body of an error answer, { detail }): it has no
\* entries to show, and the Sidebar (32, 36) throws on conversations.map.
ERROR_BODY == <<[id |-> NoId, title |-> "detail", last_message_at |-> 0]>>

\* The component is still rendered: no render has thrown.
Mounted == conversations # ERROR_BODY

NoResp == [served |-> FALSE, list |-> <<>>]
Served(list) == [served |-> TRUE, list |-> list]

\* ------------------------------------------------------------ backend
\* POST /api/conversations: a fresh id, newest first.
SrvCreate(list) == <<Conv(Len(list) + 1, 0)>> \o list

\* POST /api/ask: the conversation's last_message_at moves on.
SrvAsk(list, cid) ==
  [i \in 1..Len(list) |->
     IF list[i].id = cid
     THEN [list[i] EXCEPT !.last_message_at = @ + 1] ELSE list[i]]

\* --------------------------------------------------------------- init
Init ==
  /\ conversations = <<>>
  /\ activeId = NoId
  /\ messages = <<>>
  /\ input = <<>>
  /\ loading = FALSE
  /\ initPc = "list"
  /\ initResp = NoResp
  /\ creates = <<>>
  /\ loads = [c \in ConvIds |-> 0]
  /\ exchanges = <<>>
  /\ srvConvs \in {<<>>, <<Conv(1, 0)>>, <<Conv(2, 0), Conv(1, 0)>>}
  /\ ops = 0
  /\ recSupported \in BOOLEAN
  /\ getUserMedia \in BOOLEAN
  /\ permQuery \in {"none", "pending"}
  /\ micPermission = "unknown"
  /\ listening = FALSE
  /\ voiceStatus = NO_STATUS
  /\ recognitionRef = NoRec
  /\ engine = "idle"
  /\ prompts = 0
  /\ voiceEnabled = TRUE
  /\ synthSupported \in BOOLEAN
  /\ voices \in (IF synthSupported THEN VoiceLists ELSE {<<>>})
  /\ synth = <<>>
  /\ ev = Ev("mount", NoId)

\* A browser with speech recognition and getUserMedia and without
\* permissions.query; no conversation action reads any of the three.
Listens == recSupported /\ getUserMedia /\ permQuery = "none"

\* One browser: it also has speech synthesis, with no voice cached.
OneBrowser == Listens /\ synthSupported /\ voices = <<>>

StartNoLoad(id) == loads

\* loadMessages(id) up to its fetch.
StartLoad(id) == [loads EXCEPT ![id] = @ + 1]


\* ------------------------------------------------------- init (75-97)
\* The backend serves init's GET /api/conversations.
ServeInitList ==
  /\ initPc = "list" /\ ~initResp.served
  /\ initResp' = Served(srvConvs)
  /\ ev' = Ev("serve", NoId)
  /\ UNCHANGED voice
  /\ UNCHANGED speech
  /\ UNCHANGED <<view, initPc, creates, loads, exchanges,
                 srvConvs, ops>>

\* init after `await res.json()`: lines 81-89 up to the next await.
InitListOk ==
  /\ initPc = "list" /\ initResp.served
  /\ LET data == initResp.list IN
       /\ conversations' = data
       /\ IF Len(data) > 0
          THEN /\ activeId' = data[1].id
               /\ loads' = StartLoad(data[1].id)
               /\ initPc' = "done"
               /\ creates' = creates
          ELSE /\ creates' = Append(creates, [owner |-> "init", id |-> NoId])
               /\ initPc' = "create"
               /\ UNCHANGED <<activeId, loads>>
  /\ initResp' = NoResp
  /\ ev' = Ev("initListOk", NoId)
  /\ UNCHANGED voice
  /\ UNCHANGED speech
  /\ UNCHANGED <<messages, input, loading, exchanges, srvConvs,
                 ops>>

\* init's catch (90-93) for a failed GET /api/conversations.
InitListFail ==
  /\ initPc = "list"
  /\ messages' = <<Msg("assistant", GREETING)>>
  /\ initPc' = "done"
  /\ initResp' = NoResp
  /\ ev' = Ev("initListFail", NoId)
  /\ UNCHANGED voice
  /\ UNCHANGED speech
  /\ UNCHANGED <<conversations, activeId, input, loading, creates, loads,
                 exchanges, srvConvs, ops>>

\* ------------------------------------------- createConversation (124-134)
\* The backend serves a POST /api/conversations.
ServeCreate(i) ==
  /\ creates[i].id = NoId
  /\ Len(srvConvs) < MaxConvs
  /\ srvConvs' = SrvCreate(srvConvs)
  /\ creates' = [creates EXCEPT ![i].id = Len(srvConvs) + 1]
  /\ ev' = Ev("serve", NoId)
  /\ UNCHANGED voice
  /\ UNCHANGED speech
  /\ UNCHANGED <<view, initPc, initResp, loads, exchanges, ops>>

\* The created entry put behind the others.
AppendLast(rec, list) == Append(list, rec)

\* setConversations(prev => [rec, ...prev]) of line 132.
Prepend(rec, list) == <<rec>> \o list

\* createConversation after `await res.json()` (132-133), then its caller:
\* init (87-88) or newConversation (158-159).
CreateOk(i) ==
  /\ creates[i].id # NoId
  /\ LET data == Conv(creates[i].id, 0) IN
       /\ conversations' = Prepend(Conv(data.id, data.last_message_at), conversations)
       /\ activeId' = data.id
       /\ IF creates[i].owner = "init"
          THEN /\ loads' = StartLoad(data.id)
               /\ initPc' = "done"
               /\ messages' = messages
          ELSE /\ messages' = <<Msg("assistant", NEW_CHAT)>>
               /\ UNCHANGED <<loads, initPc>>
       /\ ev' = Ev("createOk", data.id)
  /\ creates' = RemoveAt(creates, i)
  /\ UNCHANGED voice
  /\ UNCHANGED speech
  /\ UNCHANGED <<input, loading, initResp, exchanges, srvConvs,
                 ops>>

\* The POST rejects (or its body does not parse): createConversation throws.
\* init catches it (90-93); newConversation (156-160) has no catch.
CreateFail(i) ==
  /\ IF creates[i].owner = "init"
     THEN /\ messages' = <<Msg("assistant", GREETING)>>
          /\ initPc' = "done"
          /\ ev' = Ev("createFail", NoId)
     ELSE /\ ev' = Ev("unhandledrejection", NoId)
          /\ UNCHANGED <<messages, initPc>>
  /\ creates' = RemoveAt(creates, i)
  /\ UNCHANGED voice
  /\ UNCHANGED speech
  /\ UNCHANGED <<conversations, activeId, input, loading, initResp, loads,
                 exchanges, srvConvs, ops>>

\* newConversation (156-157) up to its await.
NewConversation ==
  /\ ops < MaxOps
  /\ ops' = ops + 1
  /\ creates' = Append(creates, [owner |-> "new", id |-> NoId])
  /\ ev' = Ev("newConversation", NoId)
  /\ UNCHANGED voice
  /\ UNCHANGED speech
  /\ UNCHANGED <<view, initPc, initResp, loads, exchanges,
                 srvConvs>>

\* ------------------------------------------------- loadMessages (136-148)
\* loadMessages after `await res.json()` (140-144).
LoadOk(id, data) ==
  /\ loads[id] > 0
  /\ loads' = [loads EXCEPT ![id] = @ - 1]
  /\ messages' = Loaded(data)
  /\ ev' = EvOf("loadOk", id, data)
  /\ UNCHANGED voice
  /\ UNCHANGED speech
  /\ UNCHANGED <<conversations, activeId, input, loading, initPc, initResp,
                 creates, exchanges, srvConvs, ops>>

\* loadMessages' catch (145-147).
LoadFail(id) ==
  /\ loads[id] > 0
  /\ loads' = [loads EXCEPT ![id] = @ - 1]
  /\ messages' = <<Msg("assistant", GREETING)>>
  /\ ev' = Ev("loadFail", id)
  /\ UNCHANGED voice
  /\ UNCHANGED speech
  /\ UNCHANGED <<conversations, activeId, input, loading, initPc, initResp,
                 creates, exchanges, srvConvs, ops>>

\* ------------------------------------------- selectConversation (150-154)
\* The guard of line 151.
NeverActive(id) == FALSE

AlreadyActive(id) == id = activeId

\* A click on the sidebar entry of conversation id.
SelectConversation(id) ==
  /\ id \in Ids(conversations)
  /\ IF AlreadyActive(id)
     THEN UNCHANGED <<activeId, loads, ops>>
     ELSE /\ ops < MaxOps
          /\ ops' = ops + 1
          /\ activeId' = id
          /\ loads' = StartLoad(id)
  /\ ev' = Ev("selectConversation", id)
  /\ UNCHANGED voice
  /\ UNCHANGED speech
  /\ UNCHANGED <<conversations, messages, input, loading, initPc, initResp,
                 creates, exchanges, srvConvs>>

\* ------------------------------------------------------ textarea (331)
SetInput(s) ==
  /\ s # input
  /\ input' = s
  /\ ev' = Ev("setInput", NoId)
  /\ UNCHANGED voice
  /\ UNCHANGED speech
  /\ UNCHANGED <<conversations, activeId, messages, loading, netw,
                 srvConvs, ops>>

\* -------------------------------------------------- sendMessage (162-193)
\* The guard of line 164.
SendGuardNoLoading == Trim(input) # <<>>

SendGuard == Trim(input) # <<>> /\ ~loading

\* sendMessage up to `await fetch` (163-176): Enter or the Send button.
\* ------------------------------------------------- speakText (203-216)
UpperCase == <<"A","B","C","D","E","F","G","H","I","J","K","L","M",
               "N","O","P","Q","R","S","T","U","V","W","X","Y","Z">>
LowerCase == <<"a","b","c","d","e","f","g","h","i","j","k","l","m",
               "n","o","p","q","r","s","t","u","v","w","x","y","z">>

\* The folding of a character under the regex flag i.
Lower(c) ==
  IF \E k \in 1..26 : UpperCase[k] = c
  THEN LowerCase[CHOOSE k \in 1..26 : UpperCase[k] = c]
  ELSE c

\* /pat/i.test(s) for a pattern of plain characters: pat occurs in s.
Test(pat, s) ==
  \E i \in 0..(Len(s) - Len(pat)) :
    \A k \in 1..Len(pat) : Lower(s[i + k]) = Lower(pat[k])

\* The alternatives of /en-US|en_GB/i and of /Female|Google|Natural/i (207).
LangPatterns == {<<"e","n","-","U","S">>, <<"e","n","_","G","B">>}
NamePatterns == {<<"F","e","m","a","l","e">>, <<"G","o","o","g","l","e">>,
                 <<"N","a","t","u","r","a","l">>}

\* The predicate of the find of line 207.
Qualifies(v) ==
  /\ \E pat \in LangPatterns : Test(pat, v.lang)
  /\ \E pat \in NamePatterns : Test(pat, v.name)

\* Lines 207-208: the first qualifying voice, or the first voice, or none.
Preferred(vs) ==
  LET q == {k \in 1..Len(vs) : Qualifies(vs[k])} IN
    IF q # {} THEN vs[CHOOSE k \in q : \A j \in q : k <= j]
    ELSE IF vs # <<>> THEN vs[1]
    ELSE NoVoice

Utter(text, v) == [text |-> text, voice |-> v]

NotCancelled(q) == q

\* speechSynthesis.cancel() (213): nothing is speaking or queued any more.
Cancelled(q) == <<>>

\* The queue after speakText(text) on queue q.
Spoken(q, text) ==
  IF ~synthSupported THEN q
  ELSE Append(Cancelled(q), Utter(text, Preferred(voices)))

\* Line 187, on the voiceEnabled the sending handler was rendered with.
SpokenIf(enabled, q, text) == IF enabled THEN Spoken(q, text) ELSE q

\* sendMessage up to its await; e is the event that called it.
Send(e) ==
  /\ IF SendGuard
     THEN /\ ops < MaxOps
          /\ ops' = ops + 1
          /\ messages' = Append(messages, Msg("user", Trim(input)))
          /\ input' = <<>>
          /\ loading' = TRUE
          /\ exchanges' = Append(exchanges,
               [text |-> Trim(input), cid |-> activeId, next |-> messages',
                voiceEnabled |-> voiceEnabled,
                reply |-> <<>>, stage |-> "ask", resp |-> NoResp])
     ELSE UNCHANGED <<messages, input, loading, exchanges, ops>>
  /\ ev' = e
  /\ UNCHANGED voice
  /\ UNCHANGED speech
  /\ UNCHANGED <<conversations, activeId, initPc, initResp, creates, loads, srvConvs>>

\* A click on the Send button (344).
SendMessage == Send(Ev("sendMessage", NoId))

AnyEnter(key, shiftKey) == key = "Enter"

\* The condition of line 196.
PlainEnter(key, shiftKey) == key = "Enter" /\ ~shiftKey

\* handleKey (195-200), the textarea's onKeyDown: a plain Enter is kept from
\* the textarea (preventDefault) and calls sendMessage; any other key-down
\* is left to the textarea, whose change arrives as a SetInput.
HandleKey(key, shiftKey) ==
  IF PlainEnter(key, shiftKey)
  THEN Send(KeyEv("sendMessage", key, shiftKey))
  ELSE /\ ev' = KeyEv("handleKey", key, shiftKey)
       /\ UNCHANGED <<chat, speech, input, ops, voice>>

\* ----------------------------------------------------- speech output
\* The Voice checkbox (297), rendered where recognition is supported.
SetVoiceEnabled(b) ==
  /\ recSupported
  /\ b # voiceEnabled
  /\ voiceEnabled' = b
  /\ ev' = Ev("setVoiceEnabled", NoId)
  /\ UNCHANGED <<chat, input, ops, voice, synthSupported, voices, synth>>

\* The speak button of the k-th bubble (12-14, 314).
SpeakBubble(k) ==
  /\ messages[k].role = "assistant"
  /\ voiceEnabled /\ synthSupported
  /\ synth' = Spoken(synth, messages[k].content)
  /\ ev' = Ev("speakBubble", NoId)
  /\ UNCHANGED <<chat, input, ops, voice, voiceEnabled, synthSupported,
                 voices>>

\* The utterance that is speaking ends.
UtteranceEnd ==
  /\ synth # <<>>
  /\ synth' = Tail(synth)
  /\ ev' = Ev("utteranceEnd", NoId)
  /\ UNCHANGED <<chat, input, ops, voice, voiceEnabled, synthSupported,
                 voices>>

\* speechSynthesis.onvoiceschanged (102-106).
VoicesChanged(vs) ==
  /\ synthSupported
  /\ vs # voices
  /\ voices' = vs
  /\ ev' = Ev("voicesChanged", NoId)
  /\ UNCHANGED <<chat, input, ops, voice, voiceEnabled, synthSupported,
                 synth>>

ReplyFirst(msgs, r) == <<Msg("assistant", r)>> \o msgs

\* setMessages(prev => [...prev, reply]) of line 180.
WithReply(msgs, r) == Append(msgs, Msg("assistant", r))

RolledBack(msgs) ==
  Append(SubSeq(msgs, 1, Len(msgs) - 1), Msg("assistant", APOLOGY))

\* setMessages(prev => [...prev, apology]) of line 189.
WithApology(msgs) == Append(msgs, Msg("assistant", APOLOGY))

FinallyStuck == loading

\* What the finally of lines 190-192 leaves in loading.
Finally == FALSE

ActiveAtArrival(x) == activeId

\* The conversation_id in the body of the POST of lines 171-175: the
\* activeId the handler was rendered with.
CarriedId(x) == x.cid

\* sendMessage after `await res.json()` with res.ok (178-183); the backend
\* has served the POST /api/ask by then.
AskOk(i, r) ==
  /\ exchanges[i].stage = "ask"
  /\ srvConvs' = SrvAsk(srvConvs, CarriedId(exchanges[i]))
  /\ messages' = WithReply(messages, r)
  /\ exchanges' = [exchanges EXCEPT ![i].stage = "refresh", ![i].reply = r,
                                    ![i].resp = NoResp]
  /\ ev' = Ev("askOk", NoId)
  /\ UNCHANGED voice
  /\ UNCHANGED speech
  /\ UNCHANGED <<conversations, activeId, input, loading, initPc, initResp,
                 creates, loads, ops>>

\* sendMessage's catch and finally (188-192): fetch rejected, or !res.ok.
AskFail(i) ==
  /\ exchanges[i].stage = "ask"
  /\ messages' = WithApology(messages)
  /\ loading' = Finally
  /\ exchanges' = RemoveAt(exchanges, i)
  /\ ev' = Ev("askFail", NoId)
  /\ UNCHANGED voice
  /\ UNCHANGED speech
  /\ UNCHANGED <<conversations, activeId, input, initPc, initResp, creates,
                 loads, srvConvs, ops>>

\* The backend serves the refresh's GET /api/conversations.
ServeRefresh(i) ==
  /\ exchanges[i].stage = "refresh" /\ ~exchanges[i].resp.served
  /\ exchanges' = [exchanges EXCEPT ![i].resp = Served(srvConvs)]
  /\ ev' = Ev("serve", NoId)
  /\ UNCHANGED voice
  /\ UNCHANGED speech
  /\ UNCHANGED <<view, initPc, initResp, creates, loads, srvConvs,
                 ops>>

\* sendMessage after the refresh's `await listRes.json()` (185-187, 191).
RefreshOk(i) ==
  /\ exchanges[i].stage = "refresh" /\ exchanges[i].resp.served
  /\ conversations' = exchanges[i].resp.list
  /\ loading' = Finally
  /\ exchanges' = RemoveAt(exchanges, i)
  /\ ev' = Ev("refreshOk", NoId)
  /\ UNCHANGED voice
  /\ synth' = SpokenIf(exchanges[i].voiceEnabled, synth, exchanges[i].reply)
  /\ UNCHANGED <<voiceEnabled, synthSupported, voices>>
  /\ UNCHANGED <<activeId, messages, input, initPc, initResp, creates, loads, srvConvs, ops>>

\* The refresh's GET answers with a status that is not OK and a JSON object:
\* listRes.ok is not looked at, listRes.json() resolves, and line 185 stores
\* the object; then 187 and 191.
RefreshNotOk(i) ==
  /\ exchanges[i].stage = "refresh"
  /\ conversations' = ERROR_BODY
  /\ loading' = Finally
  /\ exchanges' = RemoveAt(exchanges, i)
  /\ ev' = Ev("refreshNotOk", NoId)
  /\ UNCHANGED voice
  /\ synth' = SpokenIf(exchanges[i].voiceEnabled, synth, exchanges[i].reply)
  /\ UNCHANGED <<voiceEnabled, synthSupported, voices>>
  /\ UNCHANGED <<activeId, messages, input, initPc, initResp, creates, loads,
                 srvConvs, ops>>

\* The refresh's empty catch (186), then 187 and 191.
RefreshFail(i) ==
  /\ exchanges[i].stage = "refresh"
  /\ loading' = Finally
  /\ exchanges' = RemoveAt(exchanges, i)
  /\ ev' = Ev("refreshFail", NoId)
  /\ UNCHANGED voice
  /\ synth' = SpokenIf(exchanges[i].voiceEnabled, synth, exchanges[i].reply)
  /\ UNCHANGED <<voiceEnabled, synthSupported, voices>>
  /\ UNCHANGED <<conversations, activeId, messages, input, initPc, initResp,
                 creates, loads, srvConvs, ops>>

\* ---------------------------------------------------------------- spec
\* ================================================================ voice
\* ------------------------------------------- checkPermission (110-122)
\* permissions.query resolves: 115-116.
PermissionState(s) ==
  /\ permQuery = "pending"
  /\ permQuery' = "watching"
  /\ micPermission' = s
  /\ ev' = Ev("permissionState", NoId)
  /\ UNCHANGED <<chat, speech, input, ops, caps, listening, voiceStatus,
                 recognitionRef, engine, prompts>>

\* permissions.query rejects (the browser knows no 'microphone'): 118.
PermissionQueryFail ==
  /\ permQuery = "pending"
  /\ permQuery' = "failed"
  /\ ev' = Ev("permissionQueryFail", NoId)
  /\ UNCHANGED <<chat, speech, input, ops, caps, micPermission, listening,
                 voiceStatus, recognitionRef, engine, prompts>>

\* status.onchange of line 116.
PermissionChange(s) ==
  /\ permQuery = "watching"
  /\ micPermission' = s
  /\ ev' = Ev("permissionChange", NoId)
  /\ UNCHANGED <<chat, speech, input, ops, caps, permQuery, listening, voiceStatus,
                 recognitionRef, engine, prompts>>

\* ------------------------------------------- toggleListening (233-280)
SupportedAnyway == FALSE

\* The guard of line 234.
Unsupported == ~recSupported

AlwaysNoInstance == TRUE

\* The guard of line 239.
NoInstance == recognitionRef = NoRec

NeverListening == FALSE

\* The guard of line 263, on the listening the handler was rendered with.
ListeningNow == listening

\* rec.stop() (264): a running engine stops, and its end event follows.
Stopped(e) == IF e = "running" THEN "stopping" ELSE e

\* Lines 271-279 on an engine in state e: start() throws unless the engine
\* is idle.
AfterStart(e) ==
  IF e = "idle"
  THEN [engine |-> "running", listening |-> TRUE, voiceStatus |-> LISTENING]
  ELSE [engine |-> e, listening |-> FALSE, voiceStatus |-> COULD_NOT_START]

\* A click on the microphone button: toggleListening up to its await of
\* getUserMedia, or to its end when it awaits no request.  ev.id is the
\* instance the call works on.
ToggleListening ==
  IF Unsupported
  THEN /\ voiceStatus' = UNSUPPORTED
       /\ ev' = Ev("toggleListening", NoRec)
       /\ UNCHANGED <<chat, speech, input, ops, caps, permQuery, micPermission,
                      listening, recognitionRef, engine, prompts>>
  ELSE LET rec == IF NoInstance THEN recognitionRef + 1 ELSE recognitionRef
           eng == IF NoInstance THEN "idle" ELSE engine
       IN
       /\ recognitionRef' = rec
       /\ ev' = Ev("toggleListening", rec)
       /\ IF ListeningNow
          THEN /\ engine' = Stopped(eng)
               /\ listening' = FALSE
               /\ UNCHANGED <<voiceStatus, prompts, ops>>
          ELSE IF getUserMedia
          THEN /\ ops < MaxOps
               /\ ops' = ops + 1
               /\ prompts' = prompts + 1
               /\ engine' = eng
               /\ UNCHANGED <<listening, voiceStatus>>
          ELSE /\ engine' = AfterStart(eng).engine
               /\ listening' = AfterStart(eng).listening
               /\ voiceStatus' = AfterStart(eng).voiceStatus
               /\ UNCHANGED <<prompts, ops>>
       /\ UNCHANGED <<chat, speech, input, caps, permQuery, micPermission>>

\* getUserMedia resolves: 222-223, then 271-279.
PermissionGranted ==
  /\ prompts > 0
  /\ prompts' = prompts - 1
  /\ micPermission' = "granted"
  /\ engine' = AfterStart(engine).engine
  /\ listening' = AfterStart(engine).listening
  /\ voiceStatus' = AfterStart(engine).voiceStatus
  /\ ev' = Ev("permissionGranted", recognitionRef)
  /\ UNCHANGED <<chat, speech, input, ops, caps, permQuery, recognitionRef>>

\* getUserMedia rejects: 225-227, then 269.
PermissionDenied ==
  /\ prompts > 0
  /\ prompts' = prompts - 1
  /\ micPermission' = "denied"
  /\ voiceStatus' = BLOCKED
  /\ ev' = Ev("permissionDenied", recognitionRef)
  /\ UNCHANGED <<chat, speech, input, ops, caps, permQuery, listening,
                 recognitionRef, engine>>

\* ------------------------------------- the instance's handlers (246-259)
\* rec.onresult (246-252): the transcript replaces the input.
RecResult(s) ==
  /\ engine = "running"
  /\ input' = s
  /\ ev' = Ev("recResult", recognitionRef)
  /\ UNCHANGED <<chat, speech, ops, voice>>

\* rec.onend (253-255): the engine ended, by itself or after stop().
RecEnd ==
  /\ engine \in {"running", "stopping"}
  /\ engine' = "idle"
  /\ listening' = FALSE
  /\ ev' = Ev("recEnd", recognitionRef)
  /\ UNCHANGED <<chat, speech, input, ops, caps, permQuery, micPermission,
                 voiceStatus, recognitionRef, prompts>>

AlwaysGeneric(code) == REC_ERROR

\* The text of line 257.
ErrorText(code) == IF code = "not-allowed" THEN MIC_DENIED ELSE REC_ERROR

\* rec.onerror (256-258): the engine failed, and its end event follows.
RecError(code) ==
  /\ engine = "running"
  /\ engine' = "stopping"
  /\ listening' = FALSE
  /\ voiceStatus' = ErrorText(code)
  /\ ev' = EvOf("recError", recognitionRef, Detail(code))
  /\ UNCHANGED <<chat, speech, input, ops, caps, permQuery, micPermission,
                 recognitionRef, prompts>>

\* ======================================================== specifications
Next ==
  \/ Mounted /\ ServeInitList
  \/ Mounted /\ InitListOk
  \/ Mounted /\ InitListFail
  \/ Mounted /\ \E i \in 1..Len(creates) : ServeCreate(i)
  \/ Mounted /\ \E i \in 1..Len(creates) : CreateOk(i)
  \/ Mounted /\ \E i \in 1..Len(creates) : CreateFail(i)
  \/ Mounted /\ NewConversation
  \/ Mounted /\ \E id \in ConvIds, data \in LoadBodies : LoadOk(id, data)
  \/ Mounted /\ \E id \in ConvIds : LoadFail(id)
  \/ Mounted /\ \E id \in ConvIds : SelectConversation(id)
  \/ Mounted /\ \E s \in Inputs : SetInput(s)
  \/ Mounted /\ SendMessage
  \/ Mounted /\ \E i \in 1..Len(exchanges), r \in Replies : AskOk(i, r)
  \/ Mounted /\ \E i \in 1..Len(exchanges) : AskFail(i)
  \/ Mounted /\ \E i \in 1..Len(exchanges) : ServeRefresh(i)
  \/ Mounted /\ \E i \in 1..Len(exchanges) : RefreshOk(i)
  \/ Mounted /\ \E i \in 1..Len(exchanges) : RefreshFail(i)
  \/ Mounted /\ \E i \in 1..Len(exchanges) : RefreshNotOk(i)

\* The state after construction in that one browser.
ChatInit == Init /\ OneBrowser

Spec == ChatInit /\ [][Next]_vars

VoiceNext ==
  \/ \E s \in PermissionStates : PermissionState(s)
  \/ PermissionQueryFail
  \/ \E s \in PermissionStates : PermissionChange(s)
  \/ ToggleListening
  \/ PermissionGranted
  \/ PermissionDenied
  \/ \E s \in Inputs : RecResult(s)
  \/ RecEnd
  \/ \E code \in ErrorCodes : RecError(code)

VoiceSpec == Init /\ [][VoiceNext]_vars

\* Sending by button or key and the speech output, with the conversations
\* as they are before init's list arrives.
SendNext ==
  \/ Mounted /\ \E s \in Inputs : SetInput(s)
  \/ Mounted /\ SendMessage
  \/ Mounted /\ \E key \in Keys, shiftKey \in BOOLEAN : HandleKey(key, shiftKey)
  \/ Mounted /\ \E i \in 1..Len(exchanges), r \in Replies : AskOk(i, r)
  \/ Mounted /\ \E i \in 1..Len(exchanges) : AskFail(i)
  \/ Mounted /\ \E i \in 1..Len(exchanges) : ServeRefresh(i)
  \/ Mounted /\ \E i \in 1..Len(exchanges) : RefreshOk(i)
  \/ Mounted /\ \E i \in 1..Len(exchanges) : RefreshFail(i)
  \/ Mounted /\ \E i \in 1..Len(exchanges) : RefreshNotOk(i)
  \/ Mounted /\ \E b \in BOOLEAN : SetVoiceEnabled(b)
  \/ Mounted /\ \E k \in 1..Len(messages) : SpeakBubble(k)
  \/ Mounted /\ UtteranceEnd
  \/ Mounted /\ \E vs \in VoiceLists : VoicesChanged(vs)

\* The state after construction, with or without speech synthesis.
SendInit == Init /\ Listens /\ srvConvs = <<>>

SendSpec == SendInit /\ [][SendNext]_vars

\* The same program when every issued ask and refresh eventually settles:
\* the browser resolves or rejects each fetch, and the continuation then runs.
FairSpec ==
  /\ Spec
  /\ WF_vars(\E i \in 1..Len(exchanges) :
               AskFail(i) \/ \E r \in Replies : AskOk(i, r))
  /\ WF_vars(\E i \in 1..Len(exchanges) : RefreshOk(i) \/ RefreshFail(i))

\* ============================================================== claims
Greeting == <<Msg("assistant", GREETING)>>

AsksInFlight ==
  Cardinality({i \in 1..Len(exchanges) : exchanges[i].stage = "ask"})

Blank(s) == \A i \in 1..Len(s) : s[i] \in {" ", "\t", "\n"}

\* t is s without the white space at its two ends.
IsTrimOf(t, s) ==
  /\ \E i \in 0..Len(s), j \in 0..Len(s) :
       /\ i + Len(t) + j = Len(s)
       /\ Blank(SubSeq(s, 1, i))
       /\ t = SubSeq(s, i + 1, i + Len(t))
       /\ Blank(SubSeq(s, i + Len(t) + 1, Len(s)))
  /\ t # <<>> => ~Blank(<<t[1]>>) /\ ~Blank(<<t[Len(t)]>>)

\* C1: sendMessage invoked while loading, or with input that is blank after
\* trimming, issues no request and leaves messages, input and loading as they
\* were; and at no time is more than one ask request in flight.
C1_SendIsGuarded ==
  /\ [][(ev'.op = "sendMessage" /\ (loading \/ Blank(input)))
          => UNCHANGED <<messages, input, loading, netw, conversations,
                         activeId>>]_vars
  /\ [](AsksInFlight <= 1)

C1_Witness ==
  ev.op = "sendMessage" /\ loading /\ ~Blank(input) /\ AsksInFlight = 1

\* C2: whenever a message load completes and replaces the view, the id it
\* loaded is the active conversation id at that moment.
C2_LoadedIsActive ==
  [][ev'.op \in {"loadOk", "loadFail"} => ev'.id = activeId']_vars

\* C3: sendMessage with non-blank input and loading = false appends exactly
\* one user message holding the trimmed input, empties the input and sets
\* loading, and the ask request it issues already sees that list.
C3_SendAppendsUser ==
  [][(ev'.op = "sendMessage" /\ ~Blank(input) /\ ~loading) =>
       /\ Len(messages') = Len(messages) + 1
       /\ SubSeq(messages', 1, Len(messages)) = messages
       /\ messages'[Len(messages')].role = "user"
       /\ IsTrimOf(messages'[Len(messages')].content, input)
       /\ input' = <<>>
       /\ loading'
       /\ Len(exchanges') = Len(exchanges) + 1
       /\ exchanges'[Len(exchanges')].stage = "ask"
       /\ exchanges'[Len(exchanges')].next = messages'
       /\ IsTrimOf(exchanges'[Len(exchanges')].text, input)]_vars

C3_Witness ==
  /\ ev.op = "sendMessage" /\ loading /\ input = <<>>
  /\ Len(messages) >= 2
  /\ messages[Len(messages)] = Msg("user", <<"a">>)

\* C4: a send of text t answered OK with reply r, the view untouched by any
\* other event meanwhile, ends with the previous messages followed by
\* [user: t, assistant: r] and loading = false.
C4_ExchangeOk ==
  [][/\ (ev'.op = "sendMessage" /\ ~Blank(input) /\ ~loading) =>
          /\ exchanges'[Len(exchanges')].next
               = messages \o <<Msg("user", exchanges'[Len(exchanges')].text)>>
          /\ messages' = exchanges'[Len(exchanges')].next
     /\ (ev'.op = "askOk" /\ Len(exchanges) = 1
           /\ messages = exchanges[1].next) =>
          /\ exchanges'[1].reply \in Replies
          /\ exchanges'[1].next = exchanges[1].next
          /\ messages' = exchanges[1].next
                           \o <<Msg("assistant", exchanges'[1].reply)>>
          /\ loading'
     /\ (ev'.op \in {"refreshOk", "refreshFail"} /\ Len(exchanges) = 1
           /\ messages = exchanges[1].next
                           \o <<Msg("assistant", exchanges[1].reply)>>) =>
          /\ messages' = messages
          /\ ~loading'
          /\ exchanges' = <<>>]_vars

C4_Witness ==
  /\ ev.op = "refreshOk" /\ ~loading /\ exchanges = <<>>
  /\ messages = <<Msg("user", <<"a">>), Msg("assistant", <<"r">>)>>

\* C5: a failed ask appends exactly one apology after the messages in view
\* (the optimistic user message stays), issues no refresh and no second ask,
\* and clears loading, so that the next send is accepted.
C5_AskFailure ==
  [][ev'.op = "askFail" =>
       /\ messages' = messages \o <<Msg("assistant", APOLOGY)>>
       /\ (Len(exchanges) = 1 /\ messages = exchanges[1].next =>
             messages'[Len(messages)] = Msg("user", exchanges[1].text))
       /\ Len(exchanges') = Len(exchanges) - 1
       /\ (Len(exchanges) = 1 => exchanges' = <<>>)
       /\ ~loading'
       /\ UNCHANGED <<conversations, activeId, input, initPc, initResp,
                      creates, loads, srvConvs>>]_vars

C5_Witness ==
  /\ ev.op = "sendMessage" /\ loading /\ AsksInFlight = 1
  /\ Len(messages) >= 3
  /\ messages[Len(messages) - 2].role = "user"
  /\ messages[Len(messages) - 1] = Msg("assistant", APOLOGY)
  /\ messages[Len(messages)].role = "user"

\* C6: when every issued ask and refresh settles, loading = true is always
\* followed by loading = false; and loading is never true with no exchange
\* outstanding.
C6_LoadingCleared ==
  /\ loading ~> ~loading
  /\ [](loading => exchanges # <<>>)

C6_Witness == ev.op = "refreshFail" /\ ~loading /\ exchanges = <<>>

\* C7: a message load answered with an empty array, with JSON that is no
\* array, or not at all, leaves exactly the greeting in view; one answered
\* with a non-empty array leaves exactly that array.
C7_LoadFallback ==
  [][/\ ev'.op = "loadFail" => messages' = Greeting
     /\ ev'.op = "loadOk" =>
          IF ev'.data.isArray /\ ev'.data.items # <<>>
          THEN messages' = ev'.data.items
          ELSE messages' = Greeting]_vars

\* createConversation() from init, then loadMessages on the new id, answered
\* with an empty array.
C7_Witness ==
  /\ ev.op = "loadOk" /\ ev.data = ArrayOf(<<>>)
  /\ messages = Greeting
  /\ Len(srvConvs) = 1 /\ conversations = <<Conv(1, 0)>> /\ activeId = 1
  /\ ops = 0

\* C8: selectConversation(id) with another id than the active one sets
\* activeId to id, issues one message load for id and leaves the local list
\* as it was; the list changes only when a fetched list replaces it or a
\* created conversation is prepended.
C8_SelectFrame ==
  [][/\ (ev'.op = "selectConversation" /\ ev'.id # activeId) =>
          /\ activeId' = ev'.id
          /\ loads' = [loads EXCEPT ![ev'.id] = @ + 1]
          /\ conversations' = conversations
          /\ UNCHANGED <<creates, exchanges, initPc>>
     /\ conversations' # conversations =>
          ev'.op \in {"initListOk", "refreshOk", "refreshNotOk", "createOk"}]_vars

C8_Witness ==
  /\ ev.op = "selectConversation" /\ activeId = 1 /\ loads[1] = 1
  /\ Len(conversations) = 2 /\ conversations[1].id = 2

\* C9: selectConversation(id) with the active id issues no request and
\* changes none of activeId, messages, conversations, input, loading.
C9_SelectSameNoOp ==
  [][(ev'.op = "selectConversation" /\ ev'.id = activeId)
       => UNCHANGED <<view, netw>>]_vars

C9_Witness ==
  /\ ev.op = "selectConversation" /\ ev.id = activeId
  /\ \A c \in ConvIds : loads[c] = 0

\* C10: no operation ends in a failure that nothing catches.
C10_NoUnhandledFailure == ev.op # "unhandledrejection"

IsPrefix(p, q) ==
  /\ Len(p) <= Len(q)
  /\ \A k \in 1..Len(p) : q[k] = p[k]

\* C11: where speech recognition is unsupported, toggleListening sets the
\* (non-empty) unsupported status, creates no instance and requests no
\* permission, and listening is false in every state.
C11_Unsupported ==
  [][~recSupported =>
       /\ ~listening'
       /\ (ev'.op = "toggleListening" =>
             /\ voiceStatus' = UNSUPPORTED
             /\ voiceStatus' # ""
             /\ recognitionRef' = NoRec
             /\ engine' = "idle"
             /\ prompts' = 0
             /\ ops' = ops)]_vars

C11_Witness ==
  /\ ~recSupported /\ ev.op = "toggleListening"
  /\ voiceStatus = UNSUPPORTED /\ recognitionRef = NoRec /\ ~listening

\* C12: a denied microphone prompt sets micPermission to denied and the
\* blocked status, starts no recognition and leaves listening false; where
\* there is no getUserMedia, toggleListening asks nothing and starts the
\* recognition at once.
C12_PermissionOutcome ==
  [][/\ ev'.op = "permissionDenied" =>
          /\ micPermission' = "denied"
          /\ voiceStatus' = BLOCKED
          /\ engine' = engine
          /\ ~listening'
     /\ (ev'.op = "toggleListening" /\ recSupported /\ ~listening
           /\ ~getUserMedia) =>
          /\ prompts' = prompts
          /\ (engine = "idle" /\ recognitionRef # NoRec) =>
                engine' = "running" /\ listening']_vars

\* C13: toggleListening while listening stops the running engine and sets
\* listening false; it asks for no permission, starts nothing and leaves
\* status, permission and instance as they were.
C13_ToggleStops ==
  [][(ev'.op = "toggleListening" /\ recSupported /\ listening) =>
       /\ engine = "running"
       /\ engine' = "stopping"
       /\ ~listening'
       /\ prompts' = prompts
       /\ ops' = ops
       /\ UNCHANGED <<voiceStatus, micPermission, recognitionRef>>]_vars

C13_Witness ==
  /\ ev.op = "toggleListening" /\ recognitionRef = 1
  /\ engine = "stopping" /\ ~listening /\ voiceStatus = LISTENING

\* C14: the engine's end and error events set listening false; an error
\* sets the status to the permission-denied text for code 'not-allowed' and
\* to the generic text otherwise; an end leaves the status as it was.
C14_EndAndError ==
  [][/\ ev'.op = "recEnd" =>
          /\ ~listening'
          /\ voiceStatus' = voiceStatus
     /\ ev'.op = "recError" =>
          /\ ~listening'
          /\ \E code \in ErrorCodes :
               /\ ev'.data = Detail(code)
               /\ code = "not-allowed" => voiceStatus' = MIC_DENIED
               /\ code # "not-allowed" => voiceStatus' = REC_ERROR]_vars

C14_Witness ==
  /\ ev.op = "recError" /\ ev.data = Detail("not-allowed")
  /\ voiceStatus = MIC_DENIED /\ ~listening

\* C15: at most one recognition instance is created, once created it is
\* never replaced, and every toggleListening call, also one made while a
\* prompt is pending, and every start after a prompt works on it.
C15_OneInstance ==
  [][/\ recognitionRef' \in {NoRec, 1}
     /\ recognitionRef # NoRec => recognitionRef' = recognitionRef
     /\ (recSupported /\ ev'.op \in {"toggleListening", "permissionGranted",
                                     "permissionDenied"}) =>
          ev'.id = 1]_vars

C15_Witness ==
  /\ prompts = 2 /\ recognitionRef = 1 /\ ev.op = "toggleListening"

\* C16: an OK ask leaves its exchange with one refresh to come, the reply
\* already appended; a refresh that succeeds replaces the local list by the
\* list it returned; a refresh that fails, by rejection or by a status that
\* is not OK, leaves the local list and the messages as they were.
C16_RefreshOutcome ==
  [][/\ (ev'.op = "askOk" /\ Len(exchanges) = 1) =>
          /\ Len(exchanges') = 1
          /\ exchanges'[1].stage = "refresh"
          /\ exchanges[1].stage = "ask"
          /\ messages' = messages \o <<Msg("assistant", exchanges'[1].reply)>>
     /\ (ev'.op = "refreshOk" /\ Len(exchanges) = 1) =>
          /\ exchanges[1].resp.served
          /\ conversations' = exchanges[1].resp.list
          /\ exchanges' = <<>>
     /\ ev'.op \in {"refreshFail", "refreshNotOk"} =>
          /\ conversations' = conversations
          /\ messages' = messages]_vars

C18_MicPermissionDomain == micPermission \in {"unknown", "granted", "denied"}

\* C19: activeId is null or the id of an entry of the local list.
C19_ActiveInList == activeId = NoId \/ activeId \in Ids(conversations)

\* C20: createConversation answered with a created record puts that record
\* first in the local list, the previous entries behind it in their order,
\* and hands the record to its caller, which makes its id the active id.
C20_CreatePrepends ==
  [][ev'.op = "createOk" =>
       \E i \in 1..Len(creates) :
         /\ creates[i].id # NoId
         /\ creates' = RemoveAt(creates, i)
         /\ ev'.id = creates[i].id
         /\ Len(conversations') = Len(conversations) + 1
         /\ conversations'[1].id = creates[i].id
         /\ \A k \in 1..Len(conversations) :
              conversations'[k + 1] = conversations[k]
         /\ activeId' = creates[i].id]_vars

C20_Witness ==
  /\ ev.op = "createOk" /\ ev.id = 2 /\ activeId = 2
  /\ Len(conversations) = 2 /\ conversations[1].id = 2
  /\ conversations[2].id = 1

\* C21: a key-down calls sendMessage exactly when it is Enter without
\* Shift, and that key-down adds nothing to the input.
C21_EnterSends ==
  [][ev'.key # "none" =>
       /\ ev'.op = "sendMessage" <=> (ev'.key = "Enter" /\ ~ev'.shiftKey)
       /\ ev'.op # "sendMessage" => ev'.op = "handleKey" /\ UNCHANGED <<view, netw>>
       /\ ev'.op = "sendMessage" => input' \in {input, <<>>}]_vars

C21_Witness ==
  /\ ev.op = "sendMessage" /\ ev.key = "Enter" /\ ~ev.shiftKey
  /\ loading /\ Len(exchanges) = 1 /\ input = <<>>

\* C22: the exchange of a send keeps the id that was active at the send
\* whatever is selected or created afterwards; the backend serves the ask
\* for that id; and the reply or the apology is appended to the messages in
\* view when it arrives.
C22_AskNotCancelled ==
  [][/\ (ev'.op = "sendMessage" /\ ~Blank(input) /\ ~loading) =>
          exchanges'[Len(exchanges')].cid = activeId
     /\ (ev'.op \in {"selectConversation", "newConversation", "createOk",
                      "loadOk", "loadFail"}) =>
          exchanges' = exchanges
     /\ (ev'.op = "askOk" /\ Len(exchanges) = 1) =>
          /\ exchanges'[1].cid = exchanges[1].cid
          /\ \A k \in 1..Len(srvConvs) :
               srvConvs'[k].last_message_at # srvConvs[k].last_message_at
                 <=> srvConvs[k].id = exchanges[1].cid
          /\ messages' = messages \o <<Msg("assistant", exchanges'[1].reply)>>
     /\ ev'.op = "askFail" =>
          messages' = messages \o <<Msg("assistant", APOLOGY)>>]_vars

C22_Witness ==
  /\ ev.op = "askOk" /\ Len(exchanges) = 1
  /\ exchanges[1].cid = 2 /\ activeId = 1
  /\ \E k \in 1..Len(srvConvs) :
       srvConvs[k].id = 2 /\ srvConvs[k].last_message_at = 1
  /\ messages = <<Msg("assistant", GREETING), Msg("assistant", <<"r">>)>>

\* C23: whether a reply is spoken is decided by the Voice toggle as it is
\* when the reply is handled: with synthesis supported, the exchange ends
\* with the reply as the one utterance if the toggle was on then, and with
\* the queue untouched if it was off.
C23_SpokenIfEnabled ==
  [][/\ (ev'.op = "askOk" /\ Len(exchanges) = 1) =>
          exchanges'[1].voiceEnabled = voiceEnabled
     /\ (ev'.op \in {"refreshOk", "refreshFail", "refreshNotOk"}
           /\ Len(exchanges) = 1 /\ synthSupported) =>
          IF exchanges[1].voiceEnabled
          THEN /\ Len(synth') = 1
               /\ synth'[1].text = exchanges[1].reply
          ELSE synth' = synth]_vars

\* C24: without synthesis nothing is ever queued; with it, a speak call
\* leaves its own utterance as the only one, whatever was speaking or queued
\* before; so the queue never holds more than one utterance.
C24_OneUtterance ==
  [][/\ Len(synth') <= 1
     /\ ~synthSupported => synth' = <<>>
     /\ ev'.op = "speakBubble" =>
          /\ Len(synth') = 1
          /\ \E k \in 1..Len(messages) :
               /\ messages[k].role = "assistant"
               /\ synth'[1].text = messages[k].content
     /\ (ev'.op \in {"refreshOk", "refreshFail", "refreshNotOk"}
           /\ Len(exchanges) = 1 /\ synthSupported
           /\ exchanges[1].voiceEnabled) =>
          /\ Len(synth') = 1
          /\ synth'[1].text = exchanges[1].reply]_vars

C24_Witness ==
  /\ ev.op = "speakBubble" /\ synth # <<>> /\ synth[1].text = APOLOGY
  /\ \E k \in 1..Len(messages) : messages[k] = Msg("assistant", <<"r">>)

\* The locale patterns of English US and English GB.
EnglishPatterns == {<<"e","n","-","U","S">>, <<"e","n","-","G","B">>}

\* C25: the voice of an utterance is the first cached voice whose lang is
\* English US or GB and whose name has Female, Google or Natural in it;
\* without such a voice the first cached voice; without any voice none.
C25_VoiceChosen ==
  [][ev'.op = "speakBubble" =>
       LET q == {k \in 1..Len(voices) :
                   /\ \E pat \in EnglishPatterns : Test(pat, voices[k].lang)
                   /\ \E pat \in NamePatterns : Test(pat, voices[k].name)}
       IN  IF q # {}
           THEN \E k \in q : /\ \A j \in q : k <= j
                             /\ synth'[1].voice = voices[k]
           ELSE IF voices # <<>> THEN synth'[1].voice = voices[1]
           ELSE synth'[1].voice = NoVoice]_vars

\* C26: with no toggleListening call waiting on the prompt, listening is
\* true exactly when the engine is running.
C26_ListeningIsEngine == prompts = 0 => (listening <=> engine = "running")

\* C27: the status 'Listening...' is shown only while listening is true.
C27_ListeningStatus == voiceStatus = LISTENING => listening

\* C28: no two entries of the local list have the same id.
C28_NoDuplicateIds ==
  \A j, k \in 1..Len(conversations) :
    conversations[j].id = conversations[k].id => j = k

====
